---- MODULE Spec2Model ----
(***************************************************************************)
(* agora: the instrument statistics (instrument.py) and the Monte-Carlo    *)
(* portfolio driver (main.py).                                             *)
(*                                                                         *)
(* Numbers.  Prices are positive integers.  A return is kept in percent    *)
(* (pct_change * 100, floored), so every statistic is an integer in the    *)
(* unit the code's float has, times 100.  A float that can be NaN is the   *)
(* record [nan, v].  Python containers keep their kind: a dict is          *)
(* [kind |-> "dict", keys, at], a list is [kind |-> "list", items], and    *)
(* subscripting goes through Subscript, which raises what Python raises.   *)
(* An exception is the string of its type (and the message that tells two  *)
(* raises of one type apart); "none" is no exception.                      *)
(***************************************************************************)
EXTENDS Integers, Sequences, FiniteSets, TLC

VARIABLES
    pc,             \* position of the running function
    err,            \* the exception that ended the last call, or "none"
    last,           \* the operation that ran last
    num_portfolios, \* portfolio_optimization's arguments
    tickers,
    start,
    end,
    ticker_idx,     \* tickers the loop of get_tickers_statistics has taken
    instrument,     \* the Instrument at hand (NoInstrument before construction)
    fetched,        \* tickers web.DataReader was called for, in call order
    instruments,    \* get_tickers_statistics' locals
    expected_annual_return_list,
    annual_std_list,
    gts_result,     \* what get_tickers_statistics returned
    stocks_idx,     \* portfolio_optimization's locals
    risk_free,
    returns_merged,
    i,
    all_weights,
    ret_arr,
    std_arr,
    sharpe_arr,
    optimal         \* the two selected portfolios

inputVars == <<num_portfolios, tickers, start, end>>
tickerVars == <<ticker_idx, instrument, fetched, instruments, expected_annual_return_list,
                annual_std_list, gts_result>>
prepVars == <<stocks_idx, risk_free, returns_merged>>
trialVars == <<i, all_weights, ret_arr, std_arr, sharpe_arr>>
vars == <<pc, err, last, inputVars, tickerVars, prepVars, trialVars, optimal>>

(***************************************************************************)
(* Bounds of the model.                                                    *)
(***************************************************************************)
MaxLen == 3         \* longest price series a download returns
MaxPrice == 2       \* prices are 1..MaxPrice
MaxTickers == 2     \* longest ticker list
MaxPortfolios == 3  \* largest trial count
WeightUnits == 4    \* a weight is a multiple of 1/WeightUnits

TradingDays == 252

TickerNames == {"AAPL", "BTC-USD"}

(***************************************************************************)
(* Arithmetic.                                                             *)
(***************************************************************************)
RECURSIVE Sum(_)
Sum(s) == IF s = <<>> THEN 0 ELSE Head(s) + Sum(Tail(s))

RECURSIVE SqrtSearch(_, _, _)
SqrtSearch(x, lo, hi) ==
    IF lo >= hi THEN lo
    ELSE LET mid == (lo + hi + 1) \div 2
         IN  IF mid * mid <= x THEN SqrtSearch(x, mid, hi)
             ELSE SqrtSearch(x, lo, mid - 1)

\* floor of the square root
ISqrt(x) == SqrtSearch(x, 0, IF x < 46340 THEN x ELSE 46340)

Float(v) == [nan |-> FALSE, v |-> v]
NaN == [nan |-> TRUE, v |-> 0]

FScale(f, c) == IF f.nan THEN NaN ELSE Float(f.v * c)
\* f * sqrt(c), floored
FMulSqrt(f, c) == IF f.nan THEN NaN ELSE Float(ISqrt(f.v * f.v * c))
FSquare(f) == IF f.nan THEN NaN ELSE Float(f.v * f.v)

(***************************************************************************)
(* Python values.                                                          *)
(***************************************************************************)
PyDict(rec) == [kind |-> "dict", keys |-> DOMAIN rec, at |-> rec]
EmptyDict == [kind |-> "dict", keys |-> {}, at |-> <<>>]
PyList(s) == [kind |-> "list", items |-> s]
IntKey(n) == [t |-> "int", n |-> n]
StrKey(s) == [t |-> "str", s |-> s]

Raised(e) == [err |-> e, val |-> 0]
Returned(v) == [err |-> "none", val |-> v]

\* obj[key]: a dict raises KeyError for a key it does not hold, a list
\* IndexError for an index past its end (lists count from 0).
Subscript(obj, key) ==
    IF obj.kind = "dict"
    THEN IF key.t = "str" /\ key.s \in obj.keys
         THEN Returned(obj.at[key.s])
         ELSE Raised(IF key.t = "int" THEN "KeyError: int" ELSE "KeyError: str")
    ELSE IF key.t # "int" THEN Raised("TypeError")
         ELSE IF key.n >= 0 /\ key.n < Len(obj.items)
              THEN Returned(obj.items[key.n + 1])
              ELSE Raised("IndexError")

(***************************************************************************)
(* instrument.py                                                           *)
(***************************************************************************)
RECURSIVE SeqsUpTo(_, _)
SeqsUpTo(S, n) ==
    IF n = 0 THEN {<<>>}
    ELSE LET shorter == SeqsUpTo(S, n - 1)
         IN  shorter \cup {Append(s, x) : s \in {t \in shorter : Len(t) = n - 1}, x \in S}

\* the 'Adj Close' column of a downloaded frame
PriceSeries == SeqsUpTo(1..MaxPrice, MaxLen)

\* what web.DataReader does: it returns a frame or raises
DownloadOutcomes ==
    {[exc |-> "none", data |-> d] : d \in PriceSeries}
    \cup {[exc |-> e, data |-> <<>>] : e \in {"ValueError", "RemoteDataError"}}

download_data(outcome) ==
    IF outcome.exc = "none" THEN Returned(outcome.data)
    ELSE IF outcome.exc = "ValueError"
         THEN Raised("ValueError: invalid ticker or no connection")
         ELSE Raised(outcome.exc)

NoInstrument == [kind |-> "None"]
NoneRange == [kind |-> "None"]

InstrumentInit(ticker, date_range, outcome) ==
    IF date_range = NoneRange
    THEN Raised("AttributeError")   \* datetime.datetime.now: datetime is the class
    ELSE LET got == download_data(outcome)
         IN  IF got.err # "none" THEN Raised(got.err)
             ELSE Returned([kind |-> "Instrument", id |-> -1, ticker |-> ticker,
                            date_range |-> date_range, data |-> got.val,
                            return_statistics |-> EmptyDict,
                            risk_statistics |-> EmptyDict,
                            risk_analysis_statistics |-> EmptyDict])

n_trading_dates(self) == Len(self.data)

\* closing_prices.pct_change().dropna(), in percent
PctChange(prices) ==
    [t \in 1..(Len(prices) - 1) |->
        ((prices[t + 1] - prices[t]) * 100) \div prices[t]]

\* log(x) - log(x.shift(1)), dropna: kept as the pair it is the log-ratio of
LogChange(prices) ==
    [t \in 1..(Len(prices) - 1) |-> [num |-> prices[t + 1], den |-> prices[t]]]

\* Returned(the list stored in self.return_statistics), or the exception.
\* The rows of a series lie in one calendar year, so resample('Y') has one bin.
ReturnStatistics(self) ==
    LET closing_prices == self.data
        returns == PctChange(closing_prices)
        log_returns == LogChange(closing_prices)
        cummulative_return == Sum(returns)
        expected_daily_return ==
            IF Len(returns) = 0 THEN NaN ELSE Float(Sum(returns) \div Len(returns))
        expected_total_return == FScale(expected_daily_return, Len(returns))
        expected_annual_return == FScale(expected_daily_return, TradingDays)
        APR == IF Len(returns) = 0 THEN NaN ELSE Float(Sum(returns))
    IN  IF Len(returns) = 0
        THEN Raised("ZeroDivisionError")        \* 252 / len(returns)
        ELSE LET APY == [base |-> 100 + cummulative_return,
                         exp_num |-> TradingDays, exp_den |-> Len(returns)]
             IN  Returned(PyList(<<returns, log_returns, expected_daily_return,
                                   expected_total_return, expected_annual_return,
                                   APR, APY>>))

\* returns.std(): the sample standard deviation, NaN below two observations
SampleStd(returns) ==
    LET n == Len(returns)
        sq == Sum([t \in 1..n |-> returns[t] * returns[t]])
    IN  IF n < 2 THEN NaN
        ELSE Float(ISqrt((n * sq - Sum(returns) * Sum(returns)) \div (n * (n - 1))))

ReturnsForRisk(self) == Subscript(self.return_statistics, IntKey(0))

\* Returned(the dict stored in self.risk_statistics), or the exception
RiskStatistics(self) ==
    LET looked == ReturnsForRisk(self)
    IN  IF looked.err # "none" THEN Raised(looked.err)
        ELSE LET returns == looked.val
                 daily_std == SampleStd(returns)
                 total_std == FMulSqrt(daily_std, Len(returns))
                 annual_std == FMulSqrt(daily_std, TradingDays)
             IN  Returned(PyDict([daily_std |-> daily_std,
                                  total_std |-> total_std,
                                  annual_std |-> annual_std,
                                  daily_var |-> FSquare(daily_std),
                                  total_var |-> FSquare(total_std),
                                  annual_var |-> FSquare(annual_std)]))

\* Each method: [err, self] with self as the call leaves it.
calculate_return_statistics_inplace(self) ==
    LET got == ReturnStatistics(self)
    IN  IF got.err # "none" THEN [err |-> got.err, self |-> self]
        ELSE [err |-> "none",
              self |-> [self EXCEPT !.return_statistics = got.val,
                                    !.data = Tail(self.data)]]

calculate_return_statistics(self) ==
    LET got == ReturnStatistics(self)
    IN  IF got.err # "none" THEN [err |-> got.err, self |-> self]
        ELSE [err |-> "none", self |-> [self EXCEPT !.return_statistics = got.val]]

calculate_risk_statistics(self) ==
    LET got == RiskStatistics(self)
    IN  IF got.err # "none" THEN [err |-> got.err, self |-> self]
        ELSE [err |-> "none", self |-> [self EXCEPT !.risk_statistics = got.val]]

calculate_statistics_risk_first(self) ==
    LET risks == calculate_risk_statistics(self)
    IN  IF risks.err # "none" THEN risks
        ELSE calculate_return_statistics(risks.self)

calculate_statistics(self) ==
    LET returns == calculate_return_statistics(self)
    IN  IF returns.err # "none" THEN returns
        ELSE calculate_risk_statistics(returns.self)

HasReturnStatistics(self) == self.return_statistics # EmptyDict
HasRiskStatistics(self) == self.risk_statistics # EmptyDict

(***************************************************************************)
(* A client of one Instrument: it constructs the object once and then      *)
(* calls its methods in any order, catching what they raise.               *)
(***************************************************************************)
DateTimes == {<<2015, 1, 1>>, <<2020, 4, 23>>}
DateRanges == {[start |-> a, end |-> b] : a, b \in DateTimes}

NoInputs ==
    /\ num_portfolios = 0 /\ tickers = <<>>
    /\ start = <<>> /\ end = <<>>

NoLocals ==
    /\ ticker_idx = 0
    /\ fetched = <<>> /\ instruments = <<>>
    /\ expected_annual_return_list = <<>> /\ annual_std_list = <<>>
    /\ gts_result = [returned |-> FALSE]
    /\ stocks_idx = {} /\ risk_free = 0 /\ returns_merged = <<>>
    /\ i = 0 /\ all_weights = <<>> /\ ret_arr = <<>> /\ std_arr = <<>>
    /\ sharpe_arr = <<>>
    /\ optimal = [selected |-> FALSE]

InitInstrument ==
    /\ pc = "client" /\ err = "none" /\ last = "none"
    /\ instrument = NoInstrument
    /\ NoInputs /\ NoLocals

NewInstrument ==
    /\ pc = "client" /\ last = "none"
    /\ \E ticker \in TickerNames, date_range \in DateRanges \cup {NoneRange},
          outcome \in DownloadOutcomes :
          LET made == InstrumentInit(ticker, date_range, outcome)
          IN  /\ err' = made.err
              /\ instrument' = IF made.err = "none" THEN made.val ELSE NoInstrument
              /\ fetched' = IF date_range = NoneRange THEN fetched
                            ELSE Append(fetched, ticker)
    /\ last' = "__init__"
    /\ UNCHANGED <<pc, inputVars, ticker_idx, instruments,
                   expected_annual_return_list, annual_std_list, gts_result,
                   prepVars, trialVars, optimal>>

Call(method, done) ==
    /\ pc = "client" /\ instrument # NoInstrument
    /\ err' = done.err
    /\ instrument' = done.self
    /\ last' = method
    /\ UNCHANGED <<pc, inputVars, ticker_idx, fetched, instruments,
                   expected_annual_return_list, annual_std_list, gts_result,
                   prepVars, trialVars, optimal>>

CallReturnStatistics ==
    Call("calculate_return_statistics", calculate_return_statistics(instrument))

CallRiskStatistics ==
    Call("calculate_risk_statistics", calculate_risk_statistics(instrument))

CallStatistics ==
    Call("calculate_statistics", calculate_statistics(instrument))

NextInstrument ==
    \/ NewInstrument
    \/ CallReturnStatistics
    \/ CallRiskStatistics
    \/ CallStatistics

SpecInstrument == InitInstrument /\ [][NextInstrument]_vars

(***************************************************************************)
(* main.py: get_ticker_historical_data .. get_tickers_statistics           *)
(***************************************************************************)
\* A date string: its three numbers and the separator between them.
DateString(d, m, y, sep) == [d |-> d, m |-> m, y |-> y, sep |-> sep]

DateStrings ==
    {DateString(1, 1, 2015, "/"),       \* "01/01/2015"
     DateString(23, 4, 2020, "/"),      \* "23/04/2020"
     DateString(29, 2, 2020, "/"),      \* "29/02/2020", a leap day
     DateString(29, 2, 2015, "/"),      \* "29/02/2015", no such day
     DateString(1, 13, 2015, "/"),      \* "01/13/2015", no such month
     DateString(1, 1, 2015, "-")}       \* "01-01-2015", another format

IsLeap(y) == (y % 4 = 0 /\ y % 100 # 0) \/ y % 400 = 0

DaysInMonth(m, y) ==
    IF m = 2 THEN (IF IsLeap(y) THEN 29 ELSE 28)
    ELSE IF m \in {4, 6, 9, 11} THEN 30 ELSE 31

\* datetime.strptime(s, '%d/%m/%Y'): the datetime <<y, m, d>>, or ValueError
\* when the text does not match the format or names no day of the calendar.
strptime(s) ==
    IF s.sep # "/" \/ s.d \notin 1..31 \/ s.m \notin 1..12 \/ s.y \notin 1..9999
    THEN Raised("ValueError")
    ELSE IF s.d > DaysInMonth(s.m, s.y) THEN Raised("ValueError")
         ELSE Returned(<<s.y, s.m, s.d>>)

DateGE_strict(a, b) ==
    \/ a[1] > b[1]
    \/ a[1] = b[1] /\ a[2] > b[2]
    \/ a[1] = b[1] /\ a[2] = b[2] /\ a[3] > b[3]

\* start >= end on datetimes: year, then month, then day
DateGE(a, b) ==
    \/ a[1] > b[1]
    \/ a[1] = b[1] /\ a[2] > b[2]
    \/ a[1] = b[1] /\ a[2] = b[2] /\ a[3] >= b[3]

get_ticker_historical_data(ticker, s, e, outcome) ==
    LET from == strptime(s)
        to == strptime(e)
    IN  IF from.err # "none" THEN Raised("ValueError: ERR#0001")
        ELSE IF to.err # "none" THEN Raised("ValueError: ERR#0002")
        ELSE IF DateGE(from.val, to.val) THEN Raised("ValueError: ERR#0003")
        ELSE InstrumentInit(ticker, [start |-> from.val, end |-> to.val], outcome)

\* the exceptions raised before web.DataReader is called
BeforeDownload ==
    {"ValueError: ERR#0001", "ValueError: ERR#0002", "ValueError: ERR#0003",
     "AttributeError"}

\* main.py: stocks_tickers, the symbols of data/tickers.csv with an IPO year
stocks_tickers == {"AAPL"}

TickerLists == SeqsUpTo(TickerNames, MaxTickers)

Init ==
    /\ pc = "for_ticker" /\ err = "none" /\ last = "none"
    /\ num_portfolios \in 0..MaxPortfolios
    /\ tickers \in TickerLists
    /\ start \in DateStrings
    /\ end \in DateStrings
    /\ instrument = NoInstrument
    /\ NoLocals

\* An exception inside the loop of get_tickers_statistics: nothing catches it,
\* neither there nor in portfolio_optimization nor in main.
OnTickerErrorSkip(e) ==
    /\ err' = e
    /\ pc' = "for_ticker"
    /\ ticker_idx' = ticker_idx + 1

OnTickerError(e) ==
    /\ err' = e
    /\ pc' = "failed"
    /\ ticker_idx' = ticker_idx

\* for ticker in tickers
ForTicker ==
    /\ pc = "for_ticker"
    /\ \/ /\ ticker_idx < Len(tickers)
          /\ pc' = "get_ticker_statistics"
       \/ /\ ticker_idx >= Len(tickers)
          /\ pc' = "describe"
    /\ UNCHANGED <<err, last, inputVars, tickerVars, prepVars, trialVars, optimal>>

\* get_ticker_statistics, 2.1: instrument = get_ticker_historical_data(...)
GetTickerHistoricalData ==
    /\ pc = "get_ticker_statistics"
    /\ \E outcome \in DownloadOutcomes :
          LET made == get_ticker_historical_data(tickers[ticker_idx + 1], start,
                                                 end, outcome)
          IN  /\ fetched' = IF made.err \in BeforeDownload THEN fetched
                            ELSE Append(fetched, tickers[ticker_idx + 1])
              /\ IF made.err # "none"
                 THEN OnTickerError(made.err) /\ UNCHANGED instrument
                 ELSE /\ instrument' = made.val
                      /\ pc' = "calculate_statistics"
                      /\ UNCHANGED <<err, ticker_idx>>
    /\ UNCHANGED <<last, inputVars, instruments, expected_annual_return_list,
                   annual_std_list, gts_result, prepVars, trialVars, optimal>>

\* get_ticker_statistics, 2.2: instrument.calculate_statistics()
CalculateStatistics ==
    /\ pc = "calculate_statistics"
    /\ LET done == calculate_statistics(instrument)
       IN  /\ instrument' = done.self
           /\ IF done.err # "none"
              THEN OnTickerError(done.err)
              ELSE pc' = "record" /\ UNCHANGED <<err, ticker_idx>>
    /\ UNCHANGED <<last, inputVars, fetched, instruments,
                   expected_annual_return_list, annual_std_list, gts_result,
                   prepVars, trialVars, optimal>>

\* the rest of the loop body: the three appends
RecordTicker ==
    /\ pc = "record"
    /\ instruments' = Append(instruments, instrument)
    /\ LET expected_annual_return == Subscript(instrument.return_statistics, IntKey(4))
           annual_std == Subscript(instrument.risk_statistics, IntKey(2))
       IN  IF expected_annual_return.err # "none"
           THEN /\ OnTickerError(expected_annual_return.err)
                /\ UNCHANGED <<expected_annual_return_list, annual_std_list>>
           ELSE /\ expected_annual_return_list' =
                       Append(expected_annual_return_list,
                              FScale(expected_annual_return.val, 100))
                /\ IF annual_std.err # "none"
                   THEN OnTickerError(annual_std.err) /\ UNCHANGED annual_std_list
                   ELSE /\ annual_std_list' = Append(annual_std_list, annual_std.val)
                        /\ ticker_idx' = ticker_idx + 1
                        /\ pc' = "for_ticker"
                        /\ UNCHANGED err
    /\ UNCHANGED <<last, inputVars, instrument, fetched, gts_result, prepVars,
                   trialVars, optimal>>

\* descriptive_df, utils.display, return instruments, descriptive_df
Describe ==
    /\ pc = "describe"
    /\ gts_result' =
          [returned |-> TRUE,
           instruments |-> instruments,
           descriptive_df |->
               [index |-> tickers,
                expected_annual_return |-> expected_annual_return_list,
                annual_std |-> annual_std_list]]
    /\ pc' = "prepare"
    /\ UNCHANGED <<err, last, inputVars, ticker_idx, instrument, fetched,
                   instruments, expected_annual_return_list, annual_std_list,
                   prepVars, trialVars, optimal>>

(***************************************************************************)
(* main.py: portfolio_optimization.  utils and Portfolio are other files   *)
(* of the repository; they are modelled from their specification.          *)
(***************************************************************************)
RiskFreeRates == {0, 1}     \* percent

\* utils.merge_instrument_returns: the return series side by side, one row
\* per date every instrument has a return for
merge_instrument_returns(insts) ==
    LET column(c) == insts[c].return_statistics.items[1]
        rows == IF insts = <<>> THEN 0
                ELSE CHOOSE n \in 0..MaxLen :
                        /\ \A c \in 1..Len(insts) : n <= Len(column(c))
                        /\ \E c \in 1..Len(insts) : n = Len(column(c))
    IN  [r \in 1..rows |-> [c \in 1..Len(insts) |-> column(c)[r]]]

\* Portfolio.initialize_weights: non-negative weights that sum to 1
WeightVectors(n) ==
    {w \in [1..n -> 0..WeightUnits] : Sum(w) = WeightUnits}

\* sample covariance of two columns of the return matrix
Covariance(matrix, a, b) ==
    LET n == Len(matrix)
        col(c) == [r \in 1..n |-> matrix[r][c]]
        cross == Sum([r \in 1..n |-> matrix[r][a] * matrix[r][b]])
    IN  (n * cross - Sum(col(a)) * Sum(col(b))) \div (n * (n - 1))

\* Portfolio.calculate_statistics: Returned(portfolio.statistics), or the
\* exception of a portfolio without variance
PortfolioStatistics(insts, matrix, weights, rf) ==
    LET n == Len(insts)
        annual_return ==
            Sum([c \in 1..n |->
                    weights[c] * insts[c].return_statistics.items[5].v])
            \div WeightUnits
        variance ==
            Sum([a \in 1..n |->
                    Sum([b \in 1..n |->
                            weights[a] * weights[b] * Covariance(matrix, a, b)])])
        annual_std == ISqrt((variance * TradingDays) \div (WeightUnits * WeightUnits))
    IN  IF annual_std = 0 THEN Raised("ZeroDivisionError")
        ELSE Returned(PyDict(
                [portfolio_annual_return |-> annual_return,
                 portfolio_annual_std |-> annual_std,
                 portfolio_annual_sr |-> ((annual_return - rf) * 100) \div annual_std]))

\* [idx for idx in range(len(tickers)) if tickers[idx] in stocks_tickers]
StocksIdx(tks) == {idx \in 0..(Len(tks) - 1) : tks[idx + 1] \in stocks_tickers}

\* sum([w[i] for i in portfolio.weights if i in stocks_idx]): i is a weight,
\* a float; it is in stocks_idx when it equals one of the indices, and then
\* w[i] is evaluated, and no w is defined.
WStocks(weights, idxs) ==
    IF \E c \in 1..Len(weights), idx \in idxs : weights[c] = idx * WeightUnits
    THEN Raised("NameError: w")
    ELSE Returned(0)

\* range(num_portfolios) is exhausted
LoopDoneEarly(done, n) == done >= n - 1

LoopDone(done, n) == done >= n

\* np.argmax / np.argmin of a list: the index (from 0) of the first
\* occurrence of the extreme value; ValueError on an empty list
RECURSIVE ScanMax(_, _, _)
ScanMax(a, k, best) ==
    IF k > Len(a) THEN best
    ELSE ScanMax(a, k + 1, IF a[k] > a[best] THEN k ELSE best)

RECURSIVE ScanMaxLast(_, _, _)
ScanMaxLast(a, k, best) ==
    IF k > Len(a) THEN best
    ELSE ScanMaxLast(a, k + 1, IF a[k] >= a[best] THEN k ELSE best)

RECURSIVE ScanMin(_, _, _)
ScanMin(a, k, best) ==
    IF k > Len(a) THEN best
    ELSE ScanMin(a, k + 1, IF a[k] < a[best] THEN k ELSE best)

argmax_last(a) ==
    IF a = <<>> THEN Raised("ValueError: attempt to get argmax of an empty sequence")
    ELSE Returned(ScanMaxLast(a, 2, 1) - 1)

argmax_tail(a) ==
    IF a = <<>> THEN Raised("ValueError: attempt to get argmax of an empty sequence")
    ELSE Returned(ScanMax(a, IF Len(a) > 1 THEN 3 ELSE 2, IF Len(a) > 1 THEN 2 ELSE 1) - 1)

argmax(a) ==
    IF a = <<>> THEN Raised("ValueError: attempt to get argmax of an empty sequence")
    ELSE Returned(ScanMax(a, 2, 1) - 1)

argmin(a) ==
    IF a = <<>> THEN Raised("ValueError: attempt to get argmin of an empty sequence")
    ELSE Returned(ScanMin(a, 2, 1) - 1)

\* step 2, after get_tickers_statistics: stocks_idx, risk_free, returns_merged
Prepare ==
    /\ pc = "prepare"
    /\ stocks_idx' = StocksIdx(tickers)
    /\ LET first == Subscript(PyList(instruments), IntKey(0))   \* instruments[0]
       IN  IF first.err # "none"
           THEN /\ err' = first.err
                /\ pc' = "failed"
                /\ UNCHANGED <<risk_free, returns_merged>>
           ELSE /\ risk_free' \in RiskFreeRates
                /\ returns_merged' = merge_instrument_returns(instruments)
                /\ pc' = "idle"
                /\ UNCHANGED err
    /\ UNCHANGED <<last, inputVars, tickerVars, trialVars, optimal>>

Next ==
    \/ ForTicker
    \/ GetTickerHistoricalData
    \/ CalculateStatistics
    \/ RecordTicker
    \/ Describe
    \/ Prepare

\* portfolio_optimization as main calls it
Spec == Init /\ [][Next]_vars

(***************************************************************************)
(* Steps 3 to 5 of portfolio_optimization, entered with the instruments of *)
(* a list of distinct tickers, their statistics calculated.  The locals of *)
(* get_tickers_statistics are no part of this stage and stay as NoLocals   *)
(* has them.                                                               *)
(***************************************************************************)
\* the price history of every ticker, in two markets; the second has a
\* ticker whose price never moves
Markets ==
    {[t \in TickerNames |-> IF t = "AAPL" THEN <<1, 2, 2>> ELSE <<2, 1, 2>>],
     [t \in TickerNames |-> IF t = "AAPL" THEN <<1, 1, 1>> ELSE <<1, 2, 1>>]}

MainRange == [start |-> <<2015, 1, 1>>, end |-> <<2020, 4, 23>>]

Calculated(ticker, prices) ==
    calculate_statistics(
        InstrumentInit(ticker, MainRange, [exc |-> "none", data |-> prices]).val).self

PortfolioTickers ==
    {l \in TickerLists :
        /\ Len(l) >= 1
        /\ \A a, b \in 1..Len(l) : a # b => l[a] # l[b]}

InitSimulation ==
    /\ pc = "idle" /\ err = "none" /\ last = "none"
    /\ num_portfolios \in 0..MaxPortfolios
    /\ tickers \in PortfolioTickers
    /\ start = DateString(1, 1, 2015, "/")
    /\ end = DateString(23, 4, 2020, "/")
    /\ \E market \in Markets :
          instruments = [c \in 1..Len(tickers) |->
                            Calculated(tickers[c], market[tickers[c]])]
    /\ ticker_idx = 0 /\ instrument = NoInstrument /\ fetched = <<>>
    /\ expected_annual_return_list = <<>> /\ annual_std_list = <<>>
    /\ gts_result = [returned |-> FALSE]
    /\ stocks_idx = StocksIdx(tickers)
    /\ risk_free \in RiskFreeRates
    /\ returns_merged = merge_instrument_returns(instruments)
    /\ i = 0 /\ all_weights = <<>> /\ ret_arr = <<>> /\ std_arr = <<>>
    /\ sharpe_arr = <<>>
    /\ optimal = [selected |-> FALSE]

\* all_weights, ret_arr, std_arr, sharpe_arr = [], [], [], []
StartSimulation ==
    /\ pc = "idle"
    /\ i' = 0 /\ all_weights' = <<>> /\ ret_arr' = <<>> /\ std_arr' = <<>>
    /\ sharpe_arr' = <<>>
    /\ pc' = "sampling"
    /\ UNCHANGED <<err, last, inputVars, tickerVars, prepVars, optimal>>

\* one pass of the loop body: a Portfolio, its weights, its statistics, the
\* four appends
SampleTrial ==
    /\ pc = "sampling"
    /\ ~LoopDone(i, num_portfolios)
    /\ \E weights \in WeightVectors(Len(instruments)) :
          LET w_stocks == WStocks(weights, stocks_idx)
              stats == PortfolioStatistics(instruments, returns_merged, weights,
                                           risk_free)
              R_P == Subscript(stats.val, StrKey("portfolio_annual_return"))
              STP_P == Subscript(stats.val, StrKey("portfolio_annual_std"))
              SR_P == Subscript(stats.val, StrKey("portfolio_annual_sr"))
          IN  IF w_stocks.err # "none" \/ stats.err # "none"
              THEN /\ err' = IF w_stocks.err # "none" THEN w_stocks.err
                             ELSE stats.err
                   /\ pc' = "failed"
                   /\ UNCHANGED trialVars
              ELSE /\ all_weights' = Append(all_weights, weights)
                   /\ ret_arr' = Append(ret_arr, R_P.val)
                   /\ std_arr' = Append(std_arr, STP_P.val)
                   /\ sharpe_arr' = Append(sharpe_arr, SR_P.val)
                   /\ i' = i + 1
                   /\ UNCHANGED <<pc, err>>
    /\ UNCHANGED <<last, inputVars, tickerVars, prepVars, optimal>>

\* the loop ends
EndSampling ==
    /\ pc = "sampling"
    /\ LoopDone(i, num_portfolios)
    /\ pc' = "selecting"
    /\ UNCHANGED <<err, last, inputVars, tickerVars, prepVars, trialVars, optimal>>

\* step 4: the two most efficient portfolios
Select ==
    /\ pc = "selecting"
    /\ LET opt_idx == argmax(sharpe_arr)
           min_idx == argmin(std_arr)
       IN  IF opt_idx.err # "none" \/ min_idx.err # "none"
           THEN /\ err' = IF opt_idx.err # "none" THEN opt_idx.err ELSE min_idx.err
                /\ pc' = "failed"
                /\ UNCHANGED optimal
           ELSE /\ optimal' =
                      [selected |-> TRUE,
                       opt_idx |-> opt_idx.val,
                       opt_sr |-> sharpe_arr[opt_idx.val + 1],
                       opt_ret |-> ret_arr[opt_idx.val + 1],
                       opt_std |-> std_arr[opt_idx.val + 1],
                       opt_weights |-> all_weights[opt_idx.val + 1],
                       min_idx |-> min_idx.val,
                       min_sr |-> sharpe_arr[min_idx.val + 1],
                       min_ret |-> ret_arr[min_idx.val + 1],
                       min_std |-> std_arr[min_idx.val + 1],
                       min_weights |-> all_weights[min_idx.val + 1]]
                /\ pc' = "report"
                /\ UNCHANGED err
    /\ UNCHANGED <<last, inputVars, tickerVars, prepVars, trialVars>>

\* weights_df, step 5: the plot, return
Report ==
    /\ pc = "report"
    /\ pc' = "done"
    /\ UNCHANGED <<err, last, inputVars, tickerVars, prepVars, trialVars, optimal>>

NextSimulation ==
    \/ StartSimulation
    \/ SampleTrial
    \/ EndSampling
    \/ Select
    \/ Report

SpecSimulation == InitSimulation /\ [][NextSimulation]_vars

(***************************************************************************)
(* Properties of the selection (SpecSimulation).                           *)
(***************************************************************************)
Trials == 1..Len(sharpe_arr)

\* C1: once the two portfolios are selected, the max-Sharpe one has a Sharpe
\* ratio no smaller than any recorded trial's, and the min-std one an annual
\* standard deviation no larger than any recorded trial's.
C1_SelectionIsExtremal ==
    optimal.selected =>
        /\ \A t \in Trials : optimal.opt_sr >= sharpe_arr[t]
        /\ \A t \in Trials : optimal.min_std <= std_arr[t]

C1_Witness ==
    /\ optimal.selected
    /\ optimal.opt_idx > 0
    /\ \E t \in Trials : sharpe_arr[t] < optimal.opt_sr
    /\ \E t \in Trials : std_arr[t] > optimal.min_std

\* C2: among the trials that share the maximum Sharpe ratio the selection is
\* the one of smallest index, and likewise for the minimum standard deviation:
\* the selected indices are determined by the trial sequence.
C2_FirstOccurrence ==
    optimal.selected =>
        /\ optimal.opt_idx + 1 \in Trials
        /\ \A t \in Trials :
              /\ sharpe_arr[t] <= sharpe_arr[optimal.opt_idx + 1]
              /\ t < optimal.opt_idx + 1 => sharpe_arr[t] < sharpe_arr[optimal.opt_idx + 1]
        /\ optimal.min_idx + 1 \in Trials
        /\ \A t \in Trials :
              /\ std_arr[t] >= std_arr[optimal.min_idx + 1]
              /\ t < optimal.min_idx + 1 => std_arr[t] > std_arr[optimal.min_idx + 1]

C2_Witness ==
    /\ optimal.selected
    /\ \E a, b \in Trials :
          a < b /\ sharpe_arr[a] = optimal.opt_sr /\ sharpe_arr[b] = optimal.opt_sr
    /\ \E a, b \in Trials :
          a < b /\ std_arr[a] = optimal.min_std /\ std_arr[b] = optimal.min_std
    /\ \E t \in Trials : sharpe_arr[t] # optimal.opt_sr

\* C3: with a trial count of 0 the run fails with InvalidConfigurationError
\* and never reaches the selection.
C3_ZeroTrialsRejected ==
    num_portfolios = 0 =>
        /\ pc \notin {"selecting", "report", "done"}
        /\ pc = "failed" => err = "InvalidConfigurationError"

Recorded(n) ==
    /\ Len(all_weights) = n /\ Len(ret_arr) = n
    /\ Len(std_arr) = n /\ Len(sharpe_arr) = n

PhaseOrder ==
    {<<"idle", "sampling">>, <<"sampling", "selecting">>, <<"sampling", "failed">>,
     <<"selecting", "report">>, <<"selecting", "failed">>, <<"report", "done">>}

\* C4: the phases follow one another as Idle, Sampling, Selecting, Done, and
\* selection starts only when every one of the four lists holds exactly
\* num_portfolios entries.
C4_SelectAfterAllTrials ==
    [][/\ pc' # pc => <<pc, pc'>> \in PhaseOrder
       /\ pc' \in {"selecting", "report", "done"} => Recorded(num_portfolios)'
       /\ optimal'.selected => Recorded(num_portfolios)']_vars

C4_Witness ==
    /\ pc = "selecting"
    /\ num_portfolios = MaxPortfolios
    /\ Recorded(MaxPortfolios)

(***************************************************************************)
(* Properties of get_tickers_statistics (Spec).                            *)
(***************************************************************************)
\* the text is a day of the calendar written dd/mm/yyyy
WellFormed(s) ==
    /\ s.sep = "/"
    /\ s.y >= 1 /\ s.y <= 9999
    /\ \/ s.m \in {1, 3, 5, 7, 8, 10, 12} /\ s.d \in 1..31
       \/ s.m \in {4, 6, 9, 11} /\ s.d \in 1..30
       \/ s.m = 2 /\ s.d \in 1..28
       \/ s.m = 2 /\ s.d = 29 /\ s.y % 4 = 0 /\ (s.y % 100 # 0 \/ s.y % 400 = 0)

DayNumber(s) == s.y * 10000 + s.m * 100 + s.d

ValidRange == WellFormed(start) /\ WellFormed(end) /\ DayNumber(start) < DayNumber(end)

\* C5: an Instrument is constructed, and price data fetched, only when both
\* dates parse and start is strictly before end; otherwise the call raises and
\* nothing is constructed or fetched.
C5_FetchOnlyValidRange ==
    /\ (fetched # <<>> \/ instrument # NoInstrument) => ValidRange
    /\ (~ValidRange /\ tickers # <<>> /\ pc \notin {"for_ticker", "get_ticker_statistics"})
        => /\ pc = "failed"
           /\ err \in {"ValueError: ERR#0001", "ValueError: ERR#0002",
                       "ValueError: ERR#0003"}
           /\ fetched = <<>>
           /\ instrument = NoInstrument

C5_Witness ==
    /\ pc = "failed"
    /\ start = end
    /\ WellFormed(start)
    /\ err = "ValueError: ERR#0003"
    /\ fetched = <<>>

FetchOrStatisticsErrors ==
    {"ValueError: invalid ticker or no connection", "RemoteDataError",
     "ZeroDivisionError"}

\* C7: when a fetch or a statistic fails for a ticker the run ends there with
\* that error: get_tickers_statistics returns nothing, no return matrix is
\* merged and no trial is sampled; and a list that is returned holds one
\* instrument per ticker, each with both statistics.
C7_ErrorsPropagate ==
    /\ err \in FetchOrStatisticsErrors =>
          /\ pc = "failed"
          /\ ~gts_result.returned
          /\ returns_merged = <<>>
          /\ all_weights = <<>> /\ i = 0
    /\ gts_result.returned =>
          /\ Len(gts_result.instruments) = Len(tickers)
          /\ \A c \in 1..Len(gts_result.instruments) :
                /\ HasReturnStatistics(gts_result.instruments[c])
                /\ HasRiskStatistics(gts_result.instruments[c])

C7_Witness ==
    /\ err \in FetchOrStatisticsErrors
    /\ pc = "failed"
    /\ Len(tickers) > 1

\* C9: get_tickers_statistics on a non-empty ticker list fails only when a
\* date is invalid, a fetch fails or a statistic cannot be computed; otherwise
\* it returns the instruments and the table, one row per ticker.
C9_TickersReturnedInOrder ==
    (pc = "failed" /\ tickers # <<>>) =>
        err \in FetchOrStatisticsErrors \cup BeforeDownload

(***************************************************************************)
(* Properties of one Instrument (SpecInstrument).                          *)
(***************************************************************************)
Constructed == instrument # NoInstrument

\* C6, as claimed: the statistics are there when the constructor returns and
\* no later call changes them.
C6_ComputedAtConstruction ==
    /\ [](Constructed =>
            HasReturnStatistics(instrument) /\ HasRiskStatistics(instrument))
    /\ [][(Constructed /\ Constructed') =>
            /\ instrument'.return_statistics = instrument.return_statistics
            /\ instrument'.risk_statistics = instrument.risk_statistics]_vars

\* C6, amended: the constructor leaves both statistics empty;
\* calculate_statistics fills both; the price data never changes, and a
\* statistic that has been stored keeps its value under every later call.
C6_ComputedOnDemandThenStable ==
    /\ []((Constructed /\ last = "__init__") =>
            ~HasReturnStatistics(instrument) /\ ~HasRiskStatistics(instrument))
    /\ []((Constructed /\ last = "calculate_statistics" /\ err = "none") =>
            HasReturnStatistics(instrument) /\ HasRiskStatistics(instrument))
    /\ [][(Constructed /\ Constructed') =>
            /\ instrument'.data = instrument.data
            /\ HasReturnStatistics(instrument) =>
                  instrument'.return_statistics = instrument.return_statistics
            /\ HasRiskStatistics(instrument) =>
                  instrument'.risk_statistics = instrument.risk_statistics]_vars

C6_Witness ==
    /\ Constructed
    /\ last = "calculate_return_statistics" /\ err = "none"
    /\ HasRiskStatistics(instrument)

\* C8: calculate_return_statistics on fewer than 2 prices fails with
\* InsufficientDataError and stores nothing.
C8_InsufficientDataError ==
    (Constructed /\ last = "calculate_return_statistics"
       /\ n_trading_dates(instrument) < 2)
        => err = "InsufficientDataError" /\ ~HasReturnStatistics(instrument)

\* C10: risk statistics exist only together with the return statistics they
\* were derived from; calculate_risk_statistics before the return statistics
\* raises and leaves risk_statistics empty; calculate_statistics computes the
\* returns first, so on two or more prices it succeeds and fills both.
C10_RiskFromReturns ==
    Constructed =>
        /\ HasRiskStatistics(instrument) =>
              /\ HasReturnStatistics(instrument)
              /\ instrument.risk_statistics.at.daily_std
                    = SampleStd(instrument.return_statistics.items[1])
        /\ (last = "calculate_risk_statistics" /\ ~HasReturnStatistics(instrument)) =>
              err = "KeyError: int" /\ ~HasRiskStatistics(instrument)
        /\ (last = "calculate_statistics" /\ n_trading_dates(instrument) >= 2) =>
              /\ err = "none"
              /\ HasReturnStatistics(instrument) /\ HasRiskStatistics(instrument)

C10_Witness ==
    /\ Constructed
    /\ last = "calculate_risk_statistics"
    /\ err = "KeyError: int"
    /\ n_trading_dates(instrument) >= 2

====
